---------------------------- MODULE Spec2Model ----------------------------
(***************************************************************************)
(* Model of src/app.py: the cached data engine load_and_engineer_data      *)
(* (fetch, clean, RSI, drawdown, synthetic TER/Sharpe), the page script    *)
(* that consumes its table, and the 60 second result cache in front of it. *)
(*                                                                         *)
(* A float is a record [k, n, d]: k = "num" is the rational n/d (d > 0,    *)
(* lowest terms), k = "nan" / "inf" / "ninf" are the IEEE specials that    *)
(* numpy division produces.  A JSON cell is a record [t, n, s]: a number   *)
(* n, a string s (a sequence of one-character strings), null, or absent    *)
(* (the key is missing from the row's object).                             *)
(***************************************************************************)
EXTENDS Integers, Sequences, FiniteSets, TLC

VARIABLES pc, now, cache, resp, df, page, reqs

vars == <<pc, now, cache, resp, df, page, reqs>>

(***************************************************************************)
(* Floats                                                                  *)
(***************************************************************************)
Abs(x) == IF x < 0 THEN -x ELSE x

RECURSIVE Gcd(_, _)
Gcd(a, b) == IF b = 0 THEN a ELSE Gcd(b, a % b)

NaN == [k |-> "nan", n |-> 0, d |-> 1]
Inf == [k |-> "inf", n |-> 0, d |-> 1]
NInf == [k |-> "ninf", n |-> 0, d |-> 1]

Rat(n, d) ==
    LET s == IF d < 0 THEN -1 ELSE 1
        g == Gcd(Abs(n), Abs(d))
    IN  [k |-> "num", n |-> (s * n) \div g, d |-> (s * d) \div g]

Num(n) == [k |-> "num", n |-> n, d |-> 1]

IsNum(a) == a.k = "num"

FNeg(a) ==
    CASE a.k = "num" -> Rat(-a.n, a.d)
      [] a.k = "inf" -> NInf
      [] a.k = "ninf" -> Inf
      [] a.k = "nan" -> NaN

FAdd(a, b) ==
    IF a.k = "nan" \/ b.k = "nan" THEN NaN
    ELSE IF a.k = "num" /\ b.k = "num" THEN Rat(a.n * b.d + b.n * a.d, a.d * b.d)
    ELSE IF a.k = "num" THEN b
    ELSE IF b.k = "num" THEN a
    ELSE IF a.k = b.k THEN a
    ELSE NaN

FSub(a, b) == FAdd(a, FNeg(b))

FMul(a, b) ==
    IF a.k = "nan" \/ b.k = "nan" THEN NaN
    ELSE IF a.k = "num" /\ b.k = "num" THEN Rat(a.n * b.n, a.d * b.d)
    ELSE LET sa == IF a.k = "num" THEN a.n ELSE IF a.k = "inf" THEN 1 ELSE -1
             sb == IF b.k = "num" THEN b.n ELSE IF b.k = "inf" THEN 1 ELSE -1
         IN  IF sa = 0 \/ sb = 0 THEN NaN
             ELSE IF (sa > 0) = (sb > 0) THEN Inf ELSE NInf

\* numpy float division: x/0 is +-inf, 0/0 is nan, x/inf is 0, inf/inf is nan
FDiv(a, b) ==
    IF a.k = "nan" \/ b.k = "nan" THEN NaN
    ELSE IF a.k = "num" /\ b.k = "num" THEN
        IF b.n # 0 THEN Rat(a.n * b.d, a.d * b.n)
        ELSE IF a.n = 0 THEN NaN
        ELSE IF a.n > 0 THEN Inf ELSE NInf
    ELSE IF a.k = "num" THEN Num(0)
    ELSE IF b.k = "num" THEN
        IF (a.k = "inf") = (b.n >= 0) THEN Inf ELSE NInf
    ELSE NaN

\* a < b and a > b as numpy compares: every comparison with nan is False
FLess(a, b) ==
    IF a.k = "nan" \/ b.k = "nan" THEN FALSE
    ELSE IF a.k = "num" /\ b.k = "num" THEN a.n * b.d < b.n * a.d
    ELSE IF a.k = b.k THEN FALSE
    ELSE a.k = "ninf" \/ b.k = "inf"

FGreater(a, b) == FLess(b, a)

(***************************************************************************)
(* JSON cells of the fetched rows                                          *)
(***************************************************************************)
JNum(n) == [t |-> "num", n |-> n, s |-> <<>>]
JStr(s) == [t |-> "str", n |-> 0, s |-> s]
JNull == [t |-> "null", n |-> 0, s |-> <<>>]
JAbsent == [t |-> "absent", n |-> 0, s |-> <<>>]

Digits == <<"0", "1", "2", "3", "4", "5", "6", "7", "8", "9">>

IsDigit(c) == \E i \in 1..Len(Digits) : Digits[i] = c

DigitVal(c) == (CHOOSE i \in 1..Len(Digits) : Digits[i] = c) - 1

AllDigits(s) == Len(s) > 0 /\ \A i \in 1..Len(s) : IsDigit(s[i])

RECURSIVE DigitsVal(_)
DigitsVal(s) ==
    IF Len(s) = 0 THEN 0
    ELSE 10 * DigitsVal(SubSeq(s, 1, Len(s) - 1)) + DigitVal(s[Len(s)])

RECURSIVE Pow10(_)
Pow10(e) == IF e = 0 THEN 1 ELSE 10 * Pow10(e - 1)

\* float parsing of a text, for the texts the rows carry: the decimal
\* literals [-]digits[.digits] parse, words do not
ParseUnsigned(s) ==
    LET dots == {i \in 1..Len(s) : s[i] = "."}
    IN  IF dots = {} THEN
            IF AllDigits(s) THEN Num(DigitsVal(s)) ELSE NaN
        ELSE LET p == CHOOSE i \in dots : TRUE
                 ip == SubSeq(s, 1, p - 1)
                 fp == SubSeq(s, p + 1, Len(s))
             IN  IF Cardinality(dots) = 1 /\ AllDigits(ip) /\ AllDigits(fp)
                 THEN Rat(DigitsVal(ip) * Pow10(Len(fp)) + DigitsVal(fp), Pow10(Len(fp)))
                 ELSE NaN

ParseNum(s) ==
    IF Len(s) > 0 /\ s[1] = "-" THEN FNeg(ParseUnsigned(SubSeq(s, 2, Len(s))))
    ELSE ParseUnsigned(s)

\* pd.to_numeric(..., errors='coerce') on one cell
to_numeric(v) ==
    CASE v.t = "num" -> Num(v.n)
      [] v.t = "str" -> ParseNum(v.s)
      [] v.t \in {"null", "absent"} -> NaN

\* .fillna(0)
fillna(x) == IF x.k = "nan" THEN Num(0) ELSE x

(***************************************************************************)
(* Timestamps: ISO year-month texts "YYYY-MM"; a parsed timestamp is the   *)
(* month count since year 0, NaT is the missing timestamp.                 *)
(***************************************************************************)
NaT == [k |-> "nat", v |-> 0]
Ts(v) == [k |-> "ts", v |-> v]

TimeParses(s) ==
    /\ Len(s) = 7
    /\ s[5] = "-"
    /\ AllDigits(SubSeq(s, 1, 4))
    /\ AllDigits(SubSeq(s, 6, 7))
    /\ DigitsVal(SubSeq(s, 6, 7)) \in 1..12

ParseTime(s) == Ts(DigitsVal(SubSeq(s, 1, 4)) * 12 + DigitsVal(SubSeq(s, 6, 7)) - 1)

\* pd.to_datetime raises on a text it cannot parse (errors='raise' default)
DatetimeRaises(v) == v.t = "str" /\ ~TimeParses(v.s)

to_datetime(v) ==
    CASE v.t = "str" -> ParseTime(v.s)
      [] v.t \in {"null", "absent"} -> NaT

(***************************************************************************)
(* The data engine, load_and_engineer_data                                 *)
(***************************************************************************)
NumericCols == <<"price", "day_high", "day_low", "day_open", "prev_close", "change_pct">>

\* the asset identifiers the upstream table holds, in sort order
Symbols == <<"QQQ", "SPY">>

SymOrd(s) == CHOOSE i \in 1..Len(Symbols) : Symbols[i] = s

\* pd.DataFrame(list of objects): the columns are the union of the rows'
\* keys, so a column exists iff some row has the key
HasColumn(rows, c) ==
    IF c = "symbol" THEN Len(rows) > 0
    ELSE \E i \in 1..Len(rows) : rows[i][c].t # "absent"

Failed(stage) == [exc |-> stage, rows |-> <<>>]

\* lines 31-34: the six numeric columns coerced and zero-filled, the
\* timestamp column parsed; idx is the frame's index label
Clean(rows) ==
    [i \in 1..Len(rows) |->
        [idx |-> i - 1,
         symbol |-> rows[i].symbol,
         price |-> fillna(to_numeric(rows[i].price)),
         day_high |-> fillna(to_numeric(rows[i].day_high)),
         day_low |-> fillna(to_numeric(rows[i].day_low)),
         day_open |-> fillna(to_numeric(rows[i].day_open)),
         prev_close |-> fillna(to_numeric(rows[i].prev_close)),
         change_pct |-> fillna(to_numeric(rows[i].change_pct)),
         ingested_at |-> to_datetime(rows[i].ingested_at)]]

TsLE(x, y) == y.k = "nat" \/ (x.k = "ts" /\ x.v <= y.v)

RowLE(a, b) ==
    \/ SymOrd(a.symbol) < SymOrd(b.symbol)
    \/ a.symbol = b.symbol /\ TsLE(a.ingested_at, b.ingested_at)

InsertRow(s, x) ==
    LET p == Cardinality({j \in 1..Len(s) : RowLE(s[j], x)})
    IN  SubSeq(s, 1, p) \o <<x>> \o SubSeq(s, p + 1, Len(s))

\* df.sort_values(['symbol', 'ingested_at']): stable, NaT last
RECURSIVE sort_values(_)
sort_values(s) ==
    IF Len(s) = 0 THEN <<>>
    ELSE InsertRow(sort_values(SubSeq(s, 1, Len(s) - 1)), s[Len(s)])

diff(series) ==
    [i \in 1..Len(series) |->
        IF i = 1 THEN NaN ELSE FSub(series[i], series[i - 1])]

RECURSIVE FSum(_, _, _)
FSum(x, lo, hi) == IF lo > hi THEN Num(0) ELSE FAdd(FSum(x, lo, hi - 1), x[hi])

\* .rolling(window=w).mean(): no value until w observations are in the window
rolling_mean(x, w) ==
    [i \in 1..Len(x) |->
        IF i < w THEN NaN ELSE FDiv(FSum(x, i - w + 1, i), Num(w))]

Gains(delta) ==
    [i \in 1..Len(delta) |->
        IF FGreater(delta[i], Num(0)) THEN delta[i] ELSE Num(0)]

Losses(delta) ==
    [i \in 1..Len(delta) |->
        FNeg(IF FLess(delta[i], Num(0)) THEN delta[i] ELSE Num(0))]

RsiOf(gain, loss) ==
    FSub(Num(100), FDiv(Num(100), FAdd(Num(1), FDiv(gain, loss))))

calc_rsi(series, periods) ==
    LET delta == diff(series)
        gain == rolling_mean(Gains(delta), periods)
        loss == rolling_mean(Losses(delta), periods)
    IN  [i \in 1..Len(series) |-> RsiOf(gain[i], loss[i])]

RECURSIVE CumMaxAt(_, _)
CumMaxAt(series, i) ==
    IF i = 1 THEN series[1]
    ELSE LET m == CumMaxAt(series, i - 1)
         IN  IF FGreater(series[i], m) THEN series[i] ELSE m

cummax(series) == [i \in 1..Len(series) |-> CumMaxAt(series, i)]

RsiPeriods == 14

\* the rows of one symbol, in table order, and a row's place among them
GroupOf(rows, s) == LET InGroup(r) == r.symbol = s IN SelectSeq(rows, InGroup)

GroupPos(rows, i) == Cardinality({j \in 1..i : rows[j].symbol = rows[i].symbol})

PricesOf(g) == [j \in 1..Len(g) |-> g[j].price]

\* np.random.seed(42); np.random.rand(k): the first draws, in 1e-5 units
Rand42 ==
    <<37454, 95071, 73199, 59866, 15602, 15599, 5808, 86618, 60112, 70807,
      2058, 96991, 83244, 21234, 18182, 18340, 30424, 52476, 43195, 29123,
      61185, 13949, 29214, 36636, 45607, 78518, 19967, 51423, 59241, 4645,
      60754, 17052, 6505, 94889, 96563, 80840, 30461, 9767, 68423, 44015>>

\* lines 46-55 on the sorted table; TER and Sharpe are in 1e-6 units
Engineer(rows) ==
    [i \in 1..Len(rows) |->
        LET r == rows[i]
            series == PricesOf(GroupOf(rows, r.symbol))
            p == GroupPos(rows, i)
            rmax == cummax(series)[p]
        IN  [idx |-> r.idx, symbol |-> r.symbol, price |-> r.price,
             day_high |-> r.day_high, day_low |-> r.day_low,
             day_open |-> r.day_open, prev_close |-> r.prev_close,
             change_pct |-> r.change_pct, ingested_at |-> r.ingested_at,
             RSI |-> calc_rsi(series, RsiPeriods)[p],
             rolling_max |-> rmax,
             drawdown |-> FMul(FDiv(FSub(r.price, rmax), rmax), Num(100)),
             TER |-> Num(150000 + 5 * Rand42[i]),
             Sharpe |-> Num(1200000 + 21 * Rand42[Len(rows) + i])]]

\* the value the call returns for the upstream's answer r; exc names the
\* stage whose exception the except clause caught ("none": no exception)
load_and_engineer_data(r) ==
    IF r.kind = "neterr" THEN Failed("fetch")
    ELSE IF r.kind = "object" THEN Failed("frame")
    ELSE IF \E k \in 1..Len(NumericCols) : ~HasColumn(r.rows, NumericCols[k])
         THEN Failed("numeric")
    ELSE IF ~HasColumn(r.rows, "ingested_at") THEN Failed("timestamp")
    ELSE IF \E i \in 1..Len(r.rows) : DatetimeRaises(r.rows[i].ingested_at)
         THEN Failed("timestamp")
    ELSE [exc |-> "none", rows |-> Engineer(sort_values(Clean(r.rows)))]

(***************************************************************************)
(* The page script, lines 62-167                                           *)
(***************************************************************************)
IsNull(x) == x.k \in {"nan", "nat"}

DataCols ==
    <<"price", "day_high", "day_low", "day_open", "prev_close", "change_pct",
      "ingested_at", "RSI", "rolling_max", "drawdown", "TER", "Sharpe">>

\* GroupBy.last() on one column of one group: the last entry that is not null
LastOf(g, c) ==
    LET valid == {j \in 1..Len(g) : ~IsNull(g[j][c])}
    IN  IF valid = {} THEN g[Len(g)][c]
        ELSE g[CHOOSE j \in valid : \A m \in valid : m <= j][c]

LastEntry(g) ==
    [symbol |-> g[1].symbol,
     price |-> LastOf(g, "price"), day_high |-> LastOf(g, "day_high"),
     day_low |-> LastOf(g, "day_low"), day_open |-> LastOf(g, "day_open"),
     prev_close |-> LastOf(g, "prev_close"), change_pct |-> LastOf(g, "change_pct"),
     ingested_at |-> LastOf(g, "ingested_at"), RSI |-> LastOf(g, "RSI"),
     rolling_max |-> LastOf(g, "rolling_max"), drawdown |-> LastOf(g, "drawdown"),
     TER |-> LastOf(g, "TER"), Sharpe |-> LastOf(g, "Sharpe")]

\* sorted(df['symbol'].unique())
Assets(rows) ==
    LET InTable(s) == \E i \in 1..Len(rows) : rows[i].symbol = s
    IN  SelectSeq(Symbols, InTable)

\* df.groupby('symbol').last(): one entry per symbol, in symbol order
GroupLast(rows) ==
    LET a == Assets(rows)
    IN  [k \in 1..Len(a) |-> LastEntry(GroupOf(rows, a[k]))]

InsertBySharpe(s, x) ==
    LET p == Cardinality({j \in 1..Len(s) : ~FLess(s[j].Sharpe, x.Sharpe)})
    IN  SubSeq(s, 1, p) \o <<x>> \o SubSeq(s, p + 1, Len(s))

\* .sort_values('Sharpe', ascending=False)
RECURSIVE SortBySharpe(_)
SortBySharpe(s) ==
    IF Len(s) = 0 THEN <<>>
    ELSE InsertBySharpe(SortBySharpe(SubSeq(s, 1, Len(s) - 1)), s[Len(s)])

\* df.empty
IsEmpty(d) == Len(d.rows) = 0

AllSections ==
    {"alerts", "kpis", "candlestick", "sentiment", "risk", "benchmark",
     "correlation", "ledger"}

SectionsUnguarded(d) == AllSections

\* the two "if not df.empty:" blocks, lines 66 and 79
Sections(d) == IF IsEmpty(d) THEN {} ELSE AllSections

\* lines 73-76
Alert(rsi) ==
    IF FGreater(rsi, Num(70)) THEN "overbought"
    ELSE IF FLess(rsi, Num(30)) THEN "oversold"
    ELSE "none"

BlankPage ==
    [error |-> FALSE, sections |-> {}, selected |-> <<>>, alert |-> "none",
     kpi |-> <<>>, sentiment |-> <<>>, risk |-> <<>>, ledger |-> <<>>]

\* what one run of the script puts on the page for the table d, with sel the
\* selectbox's asset and err whether the st.error message is on the page
Render(d, sel, err) ==
    IF IsEmpty(d) THEN [BlankPage EXCEPT !.error = err, !.sections = Sections(d)]
    ELSE LET g == GroupOf(d.rows, sel)
             latest == g[Len(g)]
             bulls == Cardinality({i \in 1..Len(d.rows) :
                                      FGreater(d.rows[i].change_pct, Num(0))})
             bears == Cardinality({i \in 1..Len(d.rows) :
                                      ~FGreater(d.rows[i].change_pct, Num(0))})
         IN  [error |-> err,
              sections |-> Sections(d),
              selected |-> <<sel>>,
              alert |-> Alert(latest.RSI),
              kpi |-> <<[price |-> latest.price, change_pct |-> latest.change_pct,
                         drawdown |-> latest.drawdown, RSI |-> latest.RSI,
                         Sharpe |-> latest.Sharpe]>>,
              sentiment |-> <<bulls, bears>>,
              risk |-> GroupLast(d.rows),
              ledger |-> SortBySharpe(GroupLast(d.rows))]

\* the assets the selectbox offers; "" stands for no selectbox
Choices(d) ==
    IF IsEmpty(d) THEN {""} ELSE {Assets(d.rows)[k] : k \in 1..Len(Assets(d.rows))}

(***************************************************************************)
(* The result cache, @st.cache_data(ttl=60)                                *)
(***************************************************************************)
TTL == 60

NoResult == [exc |-> "none", rows |-> <<>>]

EmptyCache == [full |-> FALSE, value |-> NoResult, at |-> 0]

CacheNeverExpires(c, t) == c.full

CacheFresh(c, t) == c.full /\ t - c.at < TTL

(***************************************************************************)
(* What the upstream can answer                                            *)
(***************************************************************************)
MaxRows == 2
MaxSeries == 16
MaxMoves == 3
MaxPageRows == 2
MaxTime == 120
TickStep == 30

Silent == [kind |-> "silent", rows |-> <<>>]
NetErr == [kind |-> "neterr", rows |-> <<>>]
ObjectBody == [kind |-> "object", rows |-> <<>>]
Array(rows) == [kind |-> "array", rows |-> rows]
NoAnswer == [kind |-> "none", rows |-> <<>>]

Row(sym, price, chg, ts) ==
    [symbol |-> sym, price |-> price, day_high |-> JNum(102), day_low |-> JNum(0),
     day_open |-> JNum(99), prev_close |-> JNum(100), change_pct |-> chg,
     ingested_at |-> ts]

FormatTs(i) ==
    LET y == 2024 + ((i - 1) \div 12)
        m == ((i - 1) % 12) + 1
        D(x) == Digits[x + 1]
    IN  <<D(y \div 1000), D((y \div 100) % 10), D((y \div 10) % 10), D(y % 10), "-",
          D(m \div 10), D(m % 10)>>

RawPrices ==
    {JNum(100), JNum(90), JStr(<<"1", "0", "0", ".", "5">>), JStr(<<"a", "b", "c">>),
     JAbsent}

RawChanges == {JNum(2), JStr(<<"n", "/", "a">>)}

RawTimes == {JStr(FormatTs(1)), JStr(FormatTs(2)), JNull,
             JStr(<<"2", "0", "2", "4", "-", "1", "3">>)}

PipeRows ==
    {Row(Symbols[k], p, c, t) : k \in 1..Len(Symbols), p \in RawPrices,
                                c \in RawChanges, t \in RawTimes}

TablesOver(S, n) == UNION {[1..k -> S] : k \in 0..n}

\* one symbol's history, one row a month: the price starts at first and
\* moves to the other price at the rows in moves
SeriesOf(k, first, moves) ==
    [i \in 1..k |->
        LET flips == Cardinality({c \in moves : c <= i})
            p == IF flips % 2 = 0 THEN first ELSE 190 - first
        IN  Row(Symbols[1], JNum(p), JNum(2), JStr(FormatTs(i)))]

SeriesTables(n, m) ==
    {SeriesOf(k, first, moves) :
        k \in 1..n, first \in {100, 90},
        moves \in {c \in SUBSET (2..n) : Cardinality(c) <= m}}

PipeAnswers(n, k, m) ==
    {Array(t) : t \in TablesOver(PipeRows, n) \cup SeriesTables(k, m)}

PageRows ==
    {Row(Symbols[1], JNum(100), JNum(2), JStr(FormatTs(1))),
     Row(Symbols[1], JNum(90), JNum(-1), JStr(FormatTs(2))),
     Row(Symbols[2], JStr(<<"a", "b", "c">>), JNum(2), JStr(FormatTs(1)))}

Answers(n) ==
    {Silent, NetErr, ObjectBody} \cup {Array(t) : t \in TablesOver(PageRows, n)}

(***************************************************************************)
(* The script runs                                                         *)
(***************************************************************************)
Init ==
    /\ pc = "idle"
    /\ now = 0
    /\ cache = EmptyCache
    /\ resp = NoAnswer
    /\ df = NoResult
    /\ page = BlankPage
    /\ reqs = 0

\* A rerun of the script.  With a fresh cache entry the call at line 62
\* returns the stored value and the script renders it; whether the cache
\* layer shows the message recorded with a stored failure again is left
\* open.  Otherwise the call sends the GET of line 27 and waits for the answer.
Refresh ==
    /\ pc = "idle"
    /\ IF CacheFresh(cache, now)
       THEN /\ df' = cache.value
            /\ reqs' = 0
            /\ \E sel \in Choices(cache.value),
                  err \in (IF cache.value.exc = "none" THEN {FALSE} ELSE BOOLEAN) :
                  page' = Render(cache.value, sel, err)
            /\ UNCHANGED <<pc, now, cache, resp>>
       ELSE /\ pc' = "fetching"
            /\ reqs' = 1
            /\ resp' \in Answers(MaxPageRows)
            /\ df' = NoResult
            /\ page' = BlankPage
            /\ UNCHANGED <<now, cache>>

\* The answer arrives: lines 28-60 run, the returned value is stored in the
\* cache, and the rest of the script renders it.
Respond ==
    /\ pc = "fetching"
    /\ resp.kind # "silent"
    /\ df' = load_and_engineer_data(resp)
    /\ cache' = [full |-> TRUE, value |-> df', at |-> now]
    /\ \E sel \in Choices(df') : page' = Render(df', sel, df'.exc # "none")
    /\ pc' = "idle"
    /\ UNCHANGED <<now, resp, reqs>>

Tick ==
    /\ now + TickStep <= MaxTime
    /\ now' = now + TickStep
    /\ UNCHANGED <<pc, cache, resp, df, page, reqs>>

Next == Refresh \/ Respond \/ Tick

Spec == Init /\ [][Next]_vars

\* ENABLED <<Respond>>_vars: an answer has arrived and the run waits for it
RespondEnabled == pc = "fetching" /\ resp.kind # "silent"

\* WF_vars(Respond), with its ENABLED written out as RespondEnabled
FairRespond == []<>(~RespondEnabled) \/ []<><<Respond>>_vars

\* every answer that arrives is processed and the clock keeps running
LiveSpec == Init /\ [][Next]_vars /\ FairRespond /\ WF_vars(Tick)

\* the data engine on its own: a first run whose answer is in flight
PipeInit ==
    /\ pc = "fetching"
    /\ now = 0
    /\ cache = EmptyCache
    /\ resp \in PipeAnswers(MaxRows, MaxSeries, MaxMoves)
    /\ df = NoResult
    /\ page = BlankPage
    /\ reqs = 1

PipeNext == Respond

PipeSpec == PipeInit /\ [][PipeNext]_vars

(***************************************************************************)
(* Properties                                                              *)
(***************************************************************************)
\* a run that sent the GET has finished, and resp is the answer it got
Fetched == pc = "idle" /\ reqs = 1

\* C1: every invocation that performs a fetch eventually finishes, also when
\* the upstream never answers: no run stays blocked in the GET forever.
C1_FetchEventuallyFinishes == (pc = "fetching") ~> (pc = "idle")

\* C2: an empty JSON array is a success: the call returns the empty table
\* without entering the except clause and without the error message.
C2_EmptyResultIsSuccess ==
    (Fetched /\ resp = Array(<<>>)) =>
        (df.exc = "none" /\ IsEmpty(df) /\ ~page.error)

\* all the columns the cleaning step reads exist in the fetched rows
ColumnsPresent(rows) ==
    /\ \A k \in 1..Len(NumericCols) : HasColumn(rows, NumericCols[k])
    /\ HasColumn(rows, "ingested_at")

\* C3: cleaning the numeric columns never raises, whatever the fetched rows
\* are (a column may be absent from them); an unparseable cell becomes 0 and
\* a parseable cell keeps its value.  Stated for the tables with a row.
C3_SanitizeNeverFails ==
    (Fetched /\ resp.kind = "array" /\ Len(resp.rows) > 0) =>
        /\ df.exc # "numeric"
        /\ \A i \in 1..Len(df.rows), k \in 1..Len(NumericCols) :
              LET raw == resp.rows[df.rows[i].idx + 1][NumericCols[k]]
                  x == to_numeric(raw)
              IN  df.rows[i][NumericCols[k]] = (IF x.k = "nan" THEN Num(0) ELSE x)

\* C4: a row whose ingested_at does not parse is dropped or given a sentinel,
\* and every other fetched row still appears in the returned table.
C4_BadTimestampKeepsOtherRows ==
    (Fetched /\ resp.kind = "array" /\ ColumnsPresent(resp.rows)) =>
        \A i \in 1..Len(resp.rows) :
            ~DatetimeRaises(resp.rows[i].ingested_at) =>
                \E j \in 1..Len(df.rows) : df.rows[j].idx = i - 1

\* the largest price among the rows of row i's symbol up to and including row i
RunningMax(rows, i) ==
    LET upto == {j \in 1..i : rows[j].symbol = rows[i].symbol}
    IN  rows[CHOOSE j \in upto :
                 \A m \in upto : ~FGreater(rows[m].price, rows[j].price)].price

\* C5: every row's drawdown is a number, equal to
\* (price - running_max) / running_max * 100, at most 0, and 0 where the
\* price is the running maximum (so at each symbol's first row).
C5_DrawdownDefinedAndNonPositive ==
    Fetched =>
        \A i \in 1..Len(df.rows) :
            LET r == df.rows[i]
                rmax == RunningMax(df.rows, i)
            IN  /\ r.rolling_max = rmax
                /\ IsNum(r.drawdown)
                /\ FMul(r.drawdown, rmax) = FMul(FSub(r.price, rmax), Num(100))
                /\ ~FGreater(r.drawdown, Num(0))
                /\ (r.price = rmax => r.drawdown = Num(0))

\* no price fall among the steps of the window that ends at place p of series
NoLossInWindow(series, p) ==
    \A q \in 2..p : q > p - RsiPeriods => ~FLess(series[q], series[q - 1])

\* C6: in every symbol's series the RSI has no value at the first 13 rows
\* and only there; from the 14th row on it is a number in [0, 100], and it
\* is 100 whenever the window holds no loss (a flat window included).
C6_RsiDefinedFromRow14 ==
    Fetched =>
        \A i \in 1..Len(df.rows) :
            LET r == df.rows[i]
                p == GroupPos(df.rows, i)
                series == PricesOf(GroupOf(df.rows, r.symbol))
            IN  IF p < RsiPeriods THEN r.RSI = NaN
                ELSE /\ IsNum(r.RSI)
                     /\ ~FLess(r.RSI, Num(0))
                     /\ ~FGreater(r.RSI, Num(100))
                     /\ (NoLossInWindow(series, p) => r.RSI = Num(100))

\* the derived values of the rows of symbol s, in table order
DerivedOf(d, s) ==
    LET g == GroupOf(d.rows, s)
    IN  [j \in 1..Len(g) |-> <<g[j].RSI, g[j].rolling_max, g[j].drawdown>>]

RowsOf(rows, s) == LET IsS(r) == r.symbol = s IN SelectSeq(rows, IsS)

\* C7: the RSI, rolling_max and drawdown of a symbol's rows are those the
\* engine computes for the table that holds that symbol's rows alone: rows
\* of other symbols change nothing in them.  Stated for the symbols whose
\* own rows carry every column.
C7_NoCrossSymbolLeak ==
    (Fetched /\ resp.kind = "array") =>
        \A k \in 1..Len(Symbols) :
            LET own == RowsOf(resp.rows, Symbols[k])
            IN  (Len(own) > 0 /\ ColumnsPresent(own)) =>
                    DerivedOf(df, Symbols[k]) =
                        DerivedOf(load_and_engineer_data(Array(own)), Symbols[k])

\* the row of symbol s with the greatest ingested_at, the later row on a tie
LatestRow(rows, s) ==
    LET own == {j \in 1..Len(rows) : rows[j].symbol = s}
    IN  rows[CHOOSE j \in own :
                 \A m \in own :
                     \/ rows[m].ingested_at.v < rows[j].ingested_at.v
                     \/ /\ rows[m].ingested_at.v = rows[j].ingested_at.v
                        /\ rows[m].idx <= rows[j].idx]

IsLatestOf(e, rows) ==
    /\ e.symbol = LatestRow(rows, e.symbol).symbol
    /\ \A c \in 1..Len(DataCols) : e[DataCols[c]] = LatestRow(rows, e.symbol)[DataCols[c]]

\* C8: the latest-per-symbol table of the risk scatter and of the ledger has
\* exactly one entry per symbol, and every field of the entry is the field
\* of that symbol's row with the greatest ingested_at, also when that row's
\* RSI or drawdown has no value.
C8_LatestIsOneRow ==
    (Fetched /\ ~IsEmpty(df) /\ \A i \in 1..Len(df.rows) : df.rows[i].ingested_at.k = "ts") =>
        /\ Len(page.risk) = Len(Assets(df.rows))
        /\ Len(page.ledger) = Len(Assets(df.rows))
        /\ \A k \in 1..Len(page.risk) :
              /\ page.risk[k].symbol = Assets(df.rows)[k]
              /\ IsLatestOf(page.risk[k], df.rows)
        /\ \A k \in 1..Len(page.ledger) :
              /\ IsLatestOf(page.ledger[k], df.rows)
              /\ \A m \in 1..Len(page.ledger) :
                    page.ledger[m].symbol = page.ledger[k].symbol => m = k

\* C9: a refresh whose fetch failed (network error, or a body that is not
\* an array of rows) shows the error and none of the derived-data sections,
\* so nothing of an earlier table is on the page.
C9_FailedFetchShowsOnlyError ==
    (Fetched /\ resp.kind \in {"neterr", "object"}) =>
        /\ page.error
        /\ page.sections = {}
        /\ page.selected = <<>> /\ page.kpi = <<>> /\ page.sentiment = <<>>
        /\ page.risk = <<>> /\ page.ledger = <<>>
        /\ page.alert = "none"

\* a failed fetch after a minute or more of service
C9_Witness == Fetched /\ resp.kind = "neterr" /\ now >= TTL /\ page.error

\* C10: a run sends no request exactly when a result stored less than 60
\* seconds ago exists, and then returns it unchanged; otherwise it sends
\* one request and never a second one; the stored result is replaced only
\* by the result of that request, be it the empty table of a failure.
C10_OneRequestUnlessFresh ==
    [][/\ (pc = "idle" /\ now' = now) =>
            IF cache.full /\ now - cache.at < TTL
            THEN reqs' = 0 /\ df' = cache.value /\ cache' = cache /\ pc' = "idle"
            ELSE reqs' = 1 /\ pc' = "fetching" /\ cache' = cache
       /\ pc = "fetching" => (reqs = 1 /\ reqs' = 1)
       /\ cache' # cache =>
            /\ pc = "fetching" /\ pc' = "idle"
            /\ cache' = [full |-> TRUE, value |-> df', at |-> now]]_vars

\* the empty table of a failed fetch served from the cache, without a request
C10_Witness ==
    /\ pc = "idle" /\ reqs = 0
    /\ cache.full /\ cache.value.exc # "none"
    /\ df = cache.value
    /\ now > cache.at

=============================================================================
